---- MODULE Spec2Model ----
(***************************************************************************)
(* A model of seatmap_parser.py: the command-line entry point cli, the     *)
(* dispatcher parse_from and the two extractors parse_opentravel and       *)
(* parse_iata.                                                             *)
(*                                                                         *)
(* The XML document is read as the extractors traverse it: every step of   *)
(* a traversal loop takes the next element of the document from a small    *)
(* set of elements and appends it to a history variable, so that the       *)
(* properties below can speak about "the document" that was parsed.        *)
(*                                                                         *)
(* Python values are records of one shape (PyNone, Str, Float), since a    *)
(* field such as price holds a float, a string or None.  An element that   *)
(* find() may not find is a sequence of length 0 (None) or 1.  The result  *)
(* of an evaluation that may raise is a record [err, val] whose err is ""  *)
(* or the name of the exception class.                                     *)
(*                                                                         *)
(* ET.parse (line 65) and argparse are outside the model: parse_from       *)
(* starts from the root element of a well-formed document.  Floats are     *)
(* held as exact fractions; the numeric strings of the documents are       *)
(* short decimal literals.                                                 *)
(***************************************************************************)
EXTENDS Integers, Sequences, FiniteSets, TLC

VARIABLES
    pc,          \* position of the program
    rootTag,     \* root.tag, once parse_from has read it
    extractor,   \* the extractor parse_from delegated to
    offerItems,  \* document history: the offer list scanned (IATA)
    defItems,    \* document history: the seat-definition list scanned (IATA)
    rows,        \* document history: the rows traversed so far
    offers,      \* local of parse_iata
    defs,        \* local of parse_iata
    out,         \* local of both extractors
    err,         \* the exception in flight
    parsed,      \* local of cli: what parse_from returned
    outFile,     \* the output file: <<>> until opened, then <<its content>>
    exitCode     \* exit status of the process

vars == <<pc, rootTag, extractor, offerItems, defItems, rows, offers, defs,
          out, err, parsed, outFile, exitCode>>

-----------------------------------------------------------------------------
(* Bounds of the model *)

MaxRows == 2

MaxSeats == 1

-----------------------------------------------------------------------------
(* Python values *)

PyNone == [t |-> "None", s |-> "", n |-> 0, d |-> 1]

Str(x) == [t |-> "str", s |-> x, n |-> 0, d |-> 1]

RECURSIVE GCD(_, _)
GCD(a, b) == IF b = 0 THEN a ELSE GCD(b, a % b)

Abs(a) == IF a < 0 THEN -a ELSE a

\* The float n/d, kept in lowest terms so that equal values are equal records.
Float(n, d) ==
    LET g == GCD(Abs(n), d)
    IN  [t |-> "float", s |-> "", n |-> n \div g, d |-> d \div g]

NoOffer == Str("no offer")

Ok(v) == [err |-> "", val |-> v]

Raise(kind) == [err |-> kind, val |-> <<>>]

\* The characters of the strings the documents below are made of.
Chars(s) ==
    CASE s = "{http://schemas.xmlsoap.org/soap/envelope/}Envelope" ->
        <<"{", "h", "t", "t", "p", ":", "/", "/", "s", "c", "h", "e", "m", "a", "s", ".", "x", "m", "l", "s", "o", "a", "p", ".", "o", "r", "g", "/", "s", "o", "a", "p", "/", "e", "n", "v", "e", "l", "o", "p", "e", "/", "}", "E", "n", "v", "e", "l", "o", "p", "e">>
    [] s = "{http://www.iata.org/IATA/EDIST/2017.2}SeatAvailabilityRS" ->
        <<"{", "h", "t", "t", "p", ":", "/", "/", "w", "w", "w", ".", "i", "a", "t", "a", ".", "o", "r", "g", "/", "I", "A", "T", "A", "/", "E", "D", "I", "S", "T", "/", "2", "0", "1", "7", ".", "2", "}", "S", "e", "a", "t", "A", "v", "a", "i", "l", "a", "b", "i", "l", "i", "t", "y", "R", "S">>
    [] s = "Foo" ->
        <<"F", "o", "o">>
    [] s = "EnvelopeRS" ->
        <<"E", "n", "v", "e", "l", "o", "p", "e", "R", "S">>
    [] s = "Envelope" ->
        <<"E", "n", "v", "e", "l", "o", "p", "e">>
    [] s = "SeatAvailabilityRS" ->
        <<"S", "e", "a", "t", "A", "v", "a", "i", "l", "a", "b", "i", "l", "i", "t", "y", "R", "S">>
    [] s = "Other" ->
        <<"O", "t", "h", "e", "r">>
    [] s = "Other - Galley" ->
        <<"O", "t", "h", "e", "r", " ", "-", " ", "G", "a", "l", "l", "e", "y">>
    [] s = "Window" ->
        <<"W", "i", "n", "d", "o", "w">>
    [] s = "4400" ->
        <<"4", "4", "0", "0">>
    [] s = "2" ->
        <<"2">>
    [] s = "abc" ->
        <<"a", "b", "c">>
    [] s = "x" ->
        <<"x">>
    [] s = "25.5" ->
        <<"2", "5", ".", "5">>
    [] s = "10" ->
        <<"1", "0">>
    [] s = "unsupported XML format: use OpenTravel or IATA." ->
        <<"u", "n", "s", "u", "p", "p", "o", "r", "t", "e", "d", " ", "X", "M", "L", " ", "f", "o", "r", "m", "a", "t", ":", " ", "u", "s", "e", " ", "O", "p", "e", "n", "T", "r", "a", "v", "e", "l", " ", "o", "r", " ", "I", "A", "T", "A", ".">>
    [] s = "OpenTravel" ->
        <<"O", "p", "e", "n", "T", "r", "a", "v", "e", "l">>
    [] s = "IATA" ->
        <<"I", "A", "T", "A">>

\* Variant of EndsWith: the test made at the other end of the string.
StartsWith(s, prefix) ==
    /\ Len(s) >= Len(prefix)
    /\ SubSeq(s, 1, Len(prefix)) = prefix

\* str.endswith
EndsWith(s, suffix) ==
    /\ Len(s) >= Len(suffix)
    /\ SubSeq(s, Len(s) - Len(suffix) + 1, Len(s)) = suffix

\* the operator "in" on two strings
Contains(s, sub) ==
    \E i \in 1..(Len(s) - Len(sub) + 1) : SubSeq(s, i, i + Len(sub) - 1) = sub

Digits == {"0", "1", "2", "3", "4", "5", "6", "7", "8", "9"}

DigitVal(c) ==
    CASE c = "0" -> 0 [] c = "1" -> 1 [] c = "2" -> 2 [] c = "3" -> 3
      [] c = "4" -> 4 [] c = "5" -> 5 [] c = "6" -> 6 [] c = "7" -> 7
      [] c = "8" -> 8 [] c = "9" -> 9

RECURSIVE DigitsValue(_)
DigitsValue(cs) ==
    IF cs = <<>> THEN 0
    ELSE 10 * DigitsValue(SubSeq(cs, 1, Len(cs) - 1)) + DigitVal(cs[Len(cs)])

RECURSIVE Pow10(_)
Pow10(k) == IF k = 0 THEN 1 ELSE 10 * Pow10(k - 1)

Unsigned(cs) ==
    IF cs # <<>> /\ cs[1] \in {"-", "+"} THEN SubSeq(cs, 2, Len(cs)) ELSE cs

Sign(cs) == IF cs # <<>> /\ cs[1] = "-" THEN -1 ELSE 1

\* int(x) of a value an attribute lookup gave: None is a TypeError, a string
\* that is not an optional sign and decimal digits is a ValueError.
PyInt(v) ==
    IF v.t # "str" THEN Raise("TypeError")
    ELSE LET cs == Chars(v.s)
             ds == Unsigned(cs)
         IN  IF ds # <<>> /\ \A i \in 1..Len(ds) : ds[i] \in Digits
             THEN Ok(Sign(cs) * DigitsValue(ds))
             ELSE Raise("ValueError")

\* float(x): as PyInt, with at most one decimal point among the digits.
PyFloat(v) ==
    IF v.t # "str" THEN Raise("TypeError")
    ELSE LET cs == Chars(v.s)
             ds == Unsigned(cs)
             points == {i \in 1..Len(ds) : ds[i] = "."}
             whole == SelectSeq(ds, LAMBDA c : c # ".")
             frac == IF points = {} THEN 0
                     ELSE Len(ds) - (CHOOSE i \in points : TRUE)
         IN  IF /\ whole # <<>>
                /\ Cardinality(points) <= 1
                /\ \A i \in 1..Len(whole) : whole[i] \in Digits
             THEN Ok(Float(Sign(cs) * DigitsValue(whole), Pow10(frac)))
             ELSE Raise("ValueError")

\* x / 10 ** k for a float x and an int k (10 ** k is a float when k < 0)
DivPow10(x, k) ==
    IF k >= 0 THEN Float(x.n, x.d * Pow10(k)) ELSE Float(x.n * Pow10(-k), x.d)

-----------------------------------------------------------------------------
(* dict: a sequence of <<key, value>> pairs in insertion order *)

DictHas(dict, k) == \E i \in 1..Len(dict) : dict[i][1] = k

DictGet(dict, k) == dict[CHOOSE i \in 1..Len(dict) : dict[i][1] = k][2]

\* Variant of DictSet: dict.setdefault(k, v), the first value is kept.
DictSetDefault(dict, k, v) ==
    IF DictHas(dict, k) THEN dict ELSE Append(dict, <<k, v>>)

\* dict[k] = v: an existing key keeps its place and takes the new value.
DictSet(dict, k, v) ==
    IF DictHas(dict, k)
    THEN [i \in 1..Len(dict) |-> IF dict[i][1] = k THEN <<k, v>> ELSE dict[i]]
    ELSE Append(dict, <<k, v>>)

DictKeys(dict) == {dict[i][1] : i \in 1..Len(dict)}

-----------------------------------------------------------------------------
(* parse_opentravel *)

\* An element of an OpenTravel document is a record of what the extractor
\* reads of it: an attribute holds what get() returns (PyNone when absent), a
\* child that find() looks up is a sequence of length 0 or 1.
Fee(amount, places, code) ==
    [tag |-> "Fee", Amount |-> amount, DecimalPlaces |-> places,
     CurrencyCode |-> code]

\* a child of Service that is not a Fee
Taxes == [tag |-> "Taxes", Amount |-> PyNone, DecimalPlaces |-> PyNone,
          CurrencyCode |-> PyNone]

Summary(number, ind) == [SeatNumber |-> number, AvailableInd |-> ind]

Service(children) == [children |-> children]

Features(text, extension) == [text |-> text, extension |-> extension]

SeatInfo(summary, service, features) ==
    [summary |-> summary, service |-> service, features |-> features]

\* bool(element): an Element is true when it has at least one child
\* (xml.etree.ElementTree, Python 3.11); None is false.
Truthy(element) == element # <<>> /\ Len(element[1].children) # 0

\* element.find(tag) among the children of an element
Find(children, tag) ==
    LET hits == SelectSeq(children, LAMBDA c : c.tag = tag)
    IN  IF hits = <<>> THEN <<>> ELSE <<hits[1]>>

\* Variant of OTPricing: the else branch assigns the sentinel to price alone.
OTPricing_MixedSentinel(seat) ==
    IF Truthy(seat.service)
    THEN LET fee == Find(seat.service[1].children, "Fee")
         IN  IF fee = <<>> THEN Raise("AttributeError")
             ELSE LET amount == PyFloat(fee[1].Amount)
                      places == PyInt(fee[1].DecimalPlaces)
                  IN  IF amount.err # "" THEN Raise(amount.err)
                      ELSE IF places.err # "" THEN Raise(places.err)
                      ELSE Ok(<<DivPow10(amount.val, places.val),
                                fee[1].CurrencyCode>>)
    ELSE Ok(<<NoOffer, PyNone>>)

\* lines 90-98: <<price, currency>> of a seat
OTPricing(seat) ==
    IF Truthy(seat.service)
    THEN LET fee == Find(seat.service[1].children, "Fee")
         IN  IF fee = <<>> THEN Raise("AttributeError")
             ELSE LET amount == PyFloat(fee[1].Amount)
                      places == PyInt(fee[1].DecimalPlaces)
                  IN  IF amount.err # "" THEN Raise(amount.err)
                      ELSE IF places.err # "" THEN Raise(places.err)
                      ELSE Ok(<<DivPow10(amount.val, places.val),
                                fee[1].CurrencyCode>>)
    ELSE Ok(<<NoOffer, NoOffer>>)

\* lines 107-109: one entry of seatType
OTFeature(feat) ==
    IF feat.text.t # "str" THEN Raise("TypeError")
    ELSE IF ~Contains(Chars(feat.text.s), Chars("Other")) THEN Ok(feat.text)
    ELSE Ok(feat.extension)

\* lines 106-111: the list comprehension
RECURSIVE OTSeatType(_)
OTSeatType(features) ==
    IF features = <<>> THEN Ok(<<>>)
    ELSE LET first == OTFeature(features[1])
             rest == OTSeatType(Tail(features))
         IN  IF first.err # "" THEN Raise(first.err)
             ELSE IF rest.err # "" THEN Raise(rest.err)
             ELSE Ok(<<first.val>> \o rest.val)

\* Variant of OTSeatRecord: CabinType looked up on the seat element, which
\* has no such attribute.
OTSeatRecord_CabinOfSeat(seat, cabin_class) ==
    LET pricing == OTPricing(seat)
        seatType == OTSeatType(seat.features)
    IN  IF pricing.err # "" THEN Raise(pricing.err)
        ELSE IF seat.summary = <<>> THEN Raise("AttributeError")
        ELSE IF seatType.err # "" THEN Raise(seatType.err)
        ELSE Ok([id |-> seat.summary[1].SeatNumber,
                 available |-> seat.summary[1].AvailableInd = Str("true"),
                 cabinClass |-> PyNone,
                 price |-> pricing.val[1],
                 currency |-> pricing.val[2],
                 seatType |-> seatType.val])

\* lines 89-113: the record of one seat, or the exception its evaluation
\* raises (pricing is evaluated before the record's fields)
OTSeatRecord(seat, cabin_class) ==
    LET pricing == OTPricing(seat)
        seatType == OTSeatType(seat.features)
    IN  IF pricing.err # "" THEN Raise(pricing.err)
        ELSE IF seat.summary = <<>> THEN Raise("AttributeError")
        ELSE IF seatType.err # "" THEN Raise(seatType.err)
        ELSE Ok([id |-> seat.summary[1].SeatNumber,
                 available |-> seat.summary[1].AvailableInd = Str("true"),
                 cabinClass |-> cabin_class,
                 price |-> pricing.val[1],
                 currency |-> pricing.val[2],
                 seatType |-> seatType.val])

\* lines 87-113: the seats of one row, in document order
RECURSIVE OTSeats(_, _)
OTSeats(seatInfos, cabin_class) ==
    IF seatInfos = <<>> THEN Ok(<<>>)
    ELSE LET first == OTSeatRecord(seatInfos[1], cabin_class)
             rest == OTSeats(Tail(seatInfos), cabin_class)
         IN  IF first.err # "" THEN Raise(first.err)
             ELSE IF rest.err # "" THEN Raise(rest.err)
             ELSE Ok(<<first.val>> \o rest.val)

\* The SeatInfo elements a document is made of.
OTSeatInfos ==
    { \* no Service child
      SeatInfo(<<Summary(Str("12A"), Str("true"))>>, <<>>,
               <<Features(Str("Window"), PyNone)>>),
      \* a priced seat
      SeatInfo(<<Summary(Str("12B"), Str("false"))>>,
               <<Service(<<Fee(Str("4400"), Str("2"), Str("USD"))>>)>>,
               <<Features(Str("Other - Galley"), Str("Aisle")),
                 Features(Str("Window"), PyNone)>>),
      \* <Service/>
      SeatInfo(<<Summary(Str("12C"), Str("true"))>>, <<Service(<<>>)>>, <<>>),
      \* Summary without a SeatNumber attribute
      SeatInfo(<<Summary(PyNone, Str("true"))>>, <<>>, <<>>),
      \* no Summary child
      SeatInfo(<<>>, <<>>, <<>>),
      \* Fee without Amount
      SeatInfo(<<Summary(Str("12D"), Str("true"))>>,
               <<Service(<<Fee(PyNone, Str("2"), Str("USD"))>>)>>, <<>>),
      \* Fee whose Amount is no number
      SeatInfo(<<Summary(Str("12D"), Str("true"))>>,
               <<Service(<<Fee(Str("abc"), Str("2"), Str("USD"))>>)>>, <<>>),
      \* Fee whose DecimalPlaces is no integer
      SeatInfo(<<Summary(Str("12D"), Str("true"))>>,
               <<Service(<<Fee(Str("4400"), Str("x"), Str("EUR"))>>)>>, <<>>),
      \* Service without a Fee child
      SeatInfo(<<Summary(Str("12D"), Str("true"))>>,
               <<Service(<<Taxes>>)>>, <<>>) }

\* <<RowNumber, CabinType>> of the row elements
OTRowAttrs ==
    { <<Str("12"), Str("Economy")>>, <<Str("12"), Str("Business")>>,
      <<Str("13"), Str("Economy")>> }

SeqsUpTo(S, n) == UNION {[1..k -> S] : k \in 0..n}

\* The seat lists of a row: the traversal stops at the first seat that raises,
\* so only the last seat read may be one that raises.
SeatLists(all, good) ==
    SeqsUpTo(good, MaxSeats)
        \cup (IF MaxSeats = 0 THEN {}
              ELSE {Append(p, s) : p \in SeqsUpTo(good, MaxSeats - 1),
                                   s \in all \ good})

OTGood == {s \in OTSeatInfos : OTSeatRecord(s, PyNone).err = ""}

OTRowElements ==
    { [RowNumber |-> a[1], CabinType |-> a[2], seats |-> ss] :
        a \in OTRowAttrs, ss \in SeatLists(OTSeatInfos, OTGood) }

-----------------------------------------------------------------------------
(* parse_iata *)

\* An element whose text alone is read is the sequence of that text: <<>>
\* when find() gives None, <<PyNone>> for an element without text.
OfferItem(id, price) == [OfferItemID |-> id, SimpleCurrencyPrice |-> price]

SimpleCurrencyPrice(code, text) == [Code |-> code, text |-> text]

SeatDefinition(id, text) == [SeatDefinitionID |-> id, Text |-> text]

Seat(column, refs, offer) ==
    [Column |-> column, SeatDefinitionRef |-> refs, OfferItemRefs |-> offer]

\* lines 120-127: the Offer Index, offer id -> <<currency, price>>
RECURSIVE IATAOffers(_, _)
IATAOffers(items, acc) ==
    IF items = <<>> THEN Ok(acc)
    ELSE LET offer == items[1]
             currency_price == offer.SimpleCurrencyPrice
         IN  IF currency_price = <<>> THEN Raise("AttributeError")
             ELSE LET currency == currency_price[1].Code
                      price == PyFloat(currency_price[1].text)
                  IN  IF price.err # "" THEN Raise(price.err)
                      ELSE IATAOffers(Tail(items),
                                      DictSet(acc, offer.OfferItemID,
                                              <<currency, price.val>>))

\* lines 128-135: the Seat-Definition Index, definition id -> display name
RECURSIVE IATADefs(_, _)
IATADefs(items, acc) ==
    IF items = <<>> THEN Ok(acc)
    ELSE LET defn == items[1]
         IN  IF defn.Text = <<>> THEN Raise("AttributeError")
             ELSE IATADefs(Tail(items),
                           DictSet(acc, defn.SeatDefinitionID, defn.Text[1]))

\* lines 141-145: <<price, currency>> of a seat; the tuple stored in the index
\* is unpacked in the order "price, currency"
IATAPricing(seat, offerIndex) ==
    IF seat.OfferItemRefs # <<>>
    THEN IF ~DictHas(offerIndex, seat.OfferItemRefs[1]) THEN Raise("KeyError")
         ELSE LET stored == DictGet(offerIndex, seat.OfferItemRefs[1])
              IN  Ok(<<stored[1], stored[2]>>)
    ELSE Ok(<<NoOffer, NoOffer>>)

\* lines 146-149: the display names of the seat's SeatDefinitionRef children
RECURSIVE IATAResolve(_, _)
IATAResolve(refs, defIndex) ==
    IF refs = <<>> THEN Ok(<<>>)
    ELSE IF ~DictHas(defIndex, refs[1]) THEN Raise("KeyError")
    ELSE LET rest == IATAResolve(Tail(refs), defIndex)
         IN  IF rest.err # "" THEN Raise(rest.err)
             ELSE Ok(<<DictGet(defIndex, refs[1])>> \o rest.val)

\* Variant of WithoutAvailable: the list is kept as resolved.
Unfiltered(seat_type) == seat_type

\* line 157: [x for x in seat_type if x != "AVAILABLE"]
RECURSIVE WithoutAvailable(_)
WithoutAvailable(seat_type) ==
    IF seat_type = <<>> THEN <<>>
    ELSE IF seat_type[1] # Str("AVAILABLE")
    THEN <<seat_type[1]>> \o WithoutAvailable(Tail(seat_type))
    ELSE WithoutAvailable(Tail(seat_type))

\* line 152: row_num + seat.find("Column").text
IATASeatId(row_num, column) ==
    IF column = <<>> THEN Raise("AttributeError")
    ELSE IF row_num.t # "str" \/ column[1].t # "str" THEN Raise("TypeError")
    ELSE Ok(Str(row_num.s \o column[1].s))

\* lines 141-158: the record of one seat, or the exception its evaluation raises
IATASeatRecord(seat, row_num, offerIndex, defIndex) ==
    LET pricing == IATAPricing(seat, offerIndex)
        seat_type == IATAResolve(seat.SeatDefinitionRef, defIndex)
        id == IATASeatId(row_num, seat.Column)
    IN  IF pricing.err # "" THEN Raise(pricing.err)
        ELSE IF seat_type.err # "" THEN Raise(seat_type.err)
        ELSE IF id.err # "" THEN Raise(id.err)
        ELSE Ok([id |-> id.val,
                 available |->
                    Str("AVAILABLE") \in
                        {seat_type.val[i] : i \in 1..Len(seat_type.val)},
                 cabinClass |-> Str("unspecified"),
                 price |-> pricing.val[1],
                 currency |-> pricing.val[2],
                 seatType |-> WithoutAvailable(seat_type.val)])

\* lines 138-159: the seats of one row, in document order
RECURSIVE IATASeats(_, _, _, _)
IATASeats(seatEls, row_num, offerIndex, defIndex) ==
    IF seatEls = <<>> THEN Ok(<<>>)
    ELSE LET first == IATASeatRecord(seatEls[1], row_num, offerIndex, defIndex)
             rest == IATASeats(Tail(seatEls), row_num, offerIndex, defIndex)
         IN  IF first.err # "" THEN Raise(first.err)
             ELSE IF rest.err # "" THEN Raise(rest.err)
             ELSE Ok(<<first.val>> \o rest.val)

\* The ALaCarteOfferItem lists a document may hold.
IATAOfferLists ==
    { <<>>,
      <<OfferItem(Str("OFF1"), <<SimpleCurrencyPrice(Str("USD"), Str("25.5"))>>),
        OfferItem(Str("OFF2"), <<SimpleCurrencyPrice(Str("EUR"), Str("10"))>>)>>,
      \* a price that is no number
      <<OfferItem(Str("OFF1"), <<SimpleCurrencyPrice(Str("USD"), Str("abc"))>>)>>,
      \* no SimpleCurrencyPrice
      <<OfferItem(Str("OFF1"), <<>>)>> }

\* The SeatDefinition lists a document may hold.
IATADefLists ==
    { <<>>,
      <<SeatDefinition(Str("D1"), <<Str("AVAILABLE")>>),
        SeatDefinition(Str("D2"), <<Str("Window")>>),
        SeatDefinition(Str("D3"), <<Str("Aisle")>>)>>,
      \* no Description/Text
      <<SeatDefinition(Str("D1"), <<>>)>> }

\* The Seat elements a document is made of.
IATASeatElements ==
    { Seat(<<Str("A")>>, <<Str("D1"), Str("D2")>>, <<Str("OFF1")>>),
      Seat(<<Str("B")>>, <<Str("D2")>>, <<>>),
      Seat(<<Str("C")>>, <<Str("D3"), Str("D1"), Str("D2"), Str("D1")>>,
           <<Str("OFF2")>>),
      \* no Column
      Seat(<<>>, <<Str("D2")>>, <<>>),
      \* a reference that is no key of the Seat-Definition Index
      Seat(<<Str("D")>>, <<Str("D9")>>, <<>>),
      \* a reference that is no key of the Offer Index
      Seat(<<Str("E")>>, <<>>, <<Str("OFF9")>>) }

\* the Number child of the row elements
IATARowNumbers == { <<Str("12")>>, <<Str("13")>> }

IATAGood(offerIndex, defIndex) ==
    {s \in IATASeatElements :
        IATASeatRecord(s, Str("12"), offerIndex, defIndex).err = ""}

IATARowElements(offerIndex, defIndex) ==
    { [Number |-> n, seats |-> ss] :
        n \in IATARowNumbers,
        ss \in SeatLists(IATASeatElements, IATAGood(offerIndex, defIndex)) }
        \cup { [Number |-> <<>>, seats |-> <<>>] }

-----------------------------------------------------------------------------
(* The program *)

NoError == [kind |-> "", msg |-> ""]

Error(kind, msg) == [kind |-> kind, msg |-> msg]

\* root.tag of the documents handed to parse_from
RootTags ==
    { "{http://schemas.xmlsoap.org/soap/envelope/}Envelope",
      "{http://www.iata.org/IATA/EDIST/2017.2}SeatAvailabilityRS",
      "Foo", "EnvelopeRS" }

Init ==
    /\ pc = "cli"
    /\ rootTag = ""
    /\ extractor = "none"
    /\ offerItems = <<>>
    /\ defItems = <<>>
    /\ rows = <<>>
    /\ offers = <<>>
    /\ defs = <<>>
    /\ out = <<>>
    /\ err = NoError
    /\ parsed = <<>>
    /\ outFile = <<>>
    /\ exitCode = <<>>

\* lines 63-71: parse_from reads the root tag and delegates or raises
ParseFrom ==
    /\ pc = "cli"
    /\ \E tag \in RootTags :
        /\ rootTag' = tag
        /\ IF EndsWith(Chars(tag), Chars("Envelope"))
           THEN /\ extractor' = "parse_opentravel"
                /\ pc' = "ot_rows"
                /\ err' = err
           ELSE IF EndsWith(Chars(tag), Chars("SeatAvailabilityRS"))
           THEN /\ extractor' = "parse_iata"
                /\ pc' = "iata_offers"
                /\ err' = err
           ELSE /\ extractor' = extractor
                /\ pc' = "raised"
                /\ err' = Error("ValueError",
                                "unsupported XML format: use OpenTravel or IATA.")
    /\ UNCHANGED <<offerItems, defItems, rows, offers, defs, out, parsed,
                   outFile, exitCode>>

\* lines 84-114: one pass of the loop over the rows of the cabins (the rows
\* of all cabins, in document order)
OTRow ==
    /\ pc = "ot_rows"
    /\ Len(rows) < MaxRows
    /\ \E row \in OTRowElements :
        LET cabin_class == row.CabinType
            seats == OTSeats(row.seats, cabin_class)
        IN  /\ rows' = Append(rows, row)
            /\ IF seats.err # ""
               THEN /\ pc' = "raised"
                    /\ err' = Error(seats.err, "")
                    /\ out' = out
               ELSE /\ out' = DictSet(out, row.RowNumber, seats.val)
                    /\ UNCHANGED <<pc, err>>
    /\ UNCHANGED <<rootTag, extractor, offerItems, defItems, offers, defs,
                   parsed, outFile, exitCode>>

\* line 115, then line 68 and line 55: the mapping reaches cli
OTReturn ==
    /\ pc = "ot_rows"
    /\ pc' = "returned"
    /\ parsed' = <<out>>
    /\ UNCHANGED <<rootTag, extractor, offerItems, defItems, rows, offers, defs,
                   out, err, outFile, exitCode>>

\* lines 120-127: the scan of the offers
IATAScanOffers ==
    /\ pc = "iata_offers"
    /\ \E items \in IATAOfferLists :
        LET index == IATAOffers(items, <<>>)
        IN  /\ offerItems' = items
            /\ IF index.err # ""
               THEN /\ pc' = "raised"
                    /\ err' = Error(index.err, "")
                    /\ offers' = offers
               ELSE /\ pc' = "iata_defs"
                    /\ offers' = index.val
                    /\ err' = err
    /\ UNCHANGED <<rootTag, extractor, defItems, rows, defs, out, parsed,
                   outFile, exitCode>>

\* lines 128-135: the scan of the seat definitions
IATAScanDefs ==
    /\ pc = "iata_defs"
    /\ \E items \in IATADefLists :
        LET index == IATADefs(items, <<>>)
        IN  /\ defItems' = items
            /\ IF index.err # ""
               THEN /\ pc' = "raised"
                    /\ err' = Error(index.err, "")
                    /\ defs' = defs
               ELSE /\ pc' = "iata_rows"
                    /\ defs' = index.val
                    /\ err' = err
    /\ UNCHANGED <<rootTag, extractor, offerItems, rows, offers, out, parsed,
                   outFile, exitCode>>

\* lines 137-160: one pass of the loop over the rows
IATARow ==
    /\ pc = "iata_rows"
    /\ Len(rows) < MaxRows
    /\ \E row \in IATARowElements(offers, defs) :
        LET seats == IF row.Number = <<>> THEN Raise("AttributeError")
                     ELSE IATASeats(row.seats, row.Number[1], offers, defs)
        IN  /\ rows' = Append(rows, row)
            /\ IF seats.err # ""
               THEN /\ pc' = "raised"
                    /\ err' = Error(seats.err, "")
                    /\ out' = out
               ELSE /\ out' = DictSet(out, row.Number[1], seats.val)
                    /\ UNCHANGED <<pc, err>>
    /\ UNCHANGED <<rootTag, extractor, offerItems, defItems, offers, defs,
                   parsed, outFile, exitCode>>

\* line 161, then line 70 and line 55: the mapping reaches cli
IATAReturn ==
    /\ pc = "iata_rows"
    /\ pc' = "returned"
    /\ parsed' = <<out>>
    /\ UNCHANGED <<rootTag, extractor, offerItems, defItems, rows, offers, defs,
                   out, err, outFile, exitCode>>

\* lines 59-60: the output file is opened and the mapping dumped into it
CliWrite ==
    /\ pc = "returned"
    /\ pc' = "done"
    /\ outFile' = <<parsed[1]>>
    /\ exitCode' = <<0>>
    /\ UNCHANGED <<rootTag, extractor, offerItems, defItems, rows, offers, defs,
                   out, err, parsed>>

\* Variant of CliFail: the rows built before the failure are written out.
CliFail_DumpsWhatWasBuilt ==
    /\ pc = "raised"
    /\ pc' = "exited"
    /\ outFile' = <<out>>
    /\ exitCode' = IF err.kind = "ValueError" THEN <<2>> ELSE <<1>>
    /\ UNCHANGED <<rootTag, extractor, offerItems, defItems, rows, offers, defs,
                   out, err, parsed>>

\* lines 54-58: a ValueError is handed to parser.error, which exits with
\* status 2; any other exception leaves cli and ends the process with status 1
CliFail ==
    /\ pc = "raised"
    /\ pc' = "exited"
    /\ exitCode' = IF err.kind = "ValueError" THEN <<2>> ELSE <<1>>
    /\ UNCHANGED <<rootTag, extractor, offerItems, defItems, rows, offers, defs,
                   out, err, parsed, outFile>>

Next ==
    \/ ParseFrom
    \/ OTRow
    \/ OTReturn
    \/ IATAScanOffers
    \/ IATAScanDefs
    \/ IATARow
    \/ IATAReturn
    \/ CliWrite
    \/ CliFail

Spec == Init /\ [][Next]_vars

-----------------------------------------------------------------------------
(* Properties *)

\* the mapping parse_from returned
Result == parsed[1]

Returned == pc = "returned"

\* the row number of a row element of the document
RowKey(row) ==
    IF extractor = "parse_opentravel" THEN row.RowNumber ELSE row.Number[1]

\* the last row of the document, in traversal order, numbered k
LastRow(k) ==
    rows[CHOOSE i \in 1..Len(rows) :
            /\ RowKey(rows[i]) = k
            /\ \A j \in (i + 1)..Len(rows) : RowKey(rows[j]) # k]

\* what the extractor makes of the seats of one row taken alone
SeatsOf(row) ==
    IF extractor = "parse_opentravel"
    THEN OTSeats(row.seats, row.CabinType).val
    ELSE IATASeats(row.seats, row.Number[1], offers, defs).val

\* P(seat, record) for every seat element of the document that has a record
\* in the returned mapping, the record being the one made of that seat
ForAllSeats(P(_, _)) ==
    \A e \in 1..Len(Result) :
        LET row == LastRow(Result[e][1])
            records == Result[e][2]
        IN  \A i \in 1..Len(records) : P(row.seats[i], records[i])

ExistsSeat(P(_, _)) ==
    \E e \in 1..Len(Result) :
        LET row == LastRow(Result[e][1])
            records == Result[e][2]
        IN  \E i \in 1..Len(records) : P(row.seats[i], records[i])

\* s ends with suffix: s is some string followed by suffix
HasSuffix(s, suffix) ==
    \E k \in 0..Len(s) :
        /\ k + Len(suffix) = Len(s)
        /\ \A i \in 1..Len(suffix) : s[k + i] = suffix[i]

\* C1: in parse_iata, a seat whose OfferItemRefs is a key of the Offer Index
\* gets the price stored for that offer in its price field and the currency
\* code stored for it in its currency field.
C1_OfferResolution ==
    (Returned /\ extractor = "parse_iata") =>
        ForAllSeats(LAMBDA seat, record :
            (seat.OfferItemRefs # <<>> /\ DictHas(offers, seat.OfferItemRefs[1]))
                => LET stored == DictGet(offers, seat.OfferItemRefs[1])
                   IN  /\ record.currency = stored[1]
                       /\ record.price = stored[2])

NoPricing(seat) ==
    IF extractor = "parse_opentravel"
    THEN seat.service = <<>>
    ELSE seat.OfferItemRefs = <<>>

\* C2: in every seat record of the output of either extractor, price is the
\* sentinel "no offer" exactly when currency is, and a seat without pricing
\* information (no Service child, no OfferItemRefs child) has both.
C2_SentinelTogether ==
    Returned =>
        ForAllSeats(LAMBDA seat, record :
            /\ record.price = NoOffer <=> record.currency = NoOffer
            /\ NoPricing(seat) =>
                    (record.price = NoOffer /\ record.currency = NoOffer))

C2_Witness ==
    /\ Returned
    /\ ExistsSeat(LAMBDA seat, record :
            NoPricing(seat) /\ record.price = NoOffer)
    /\ ExistsSeat(LAMBDA seat, record :
            ~NoPricing(seat) /\ record.price # NoOffer)

UnsupportedMessage == "unsupported XML format: use OpenTravel or IATA."

\* C3: parse_from delegates by the suffix of the root tag: "Envelope" to
\* parse_opentravel, "SeatAvailabilityRS" to parse_iata; any other root tag
\* fails with the error that names the two supported formats, no extractor
\* is invoked and no mapping is produced.
C3_DispatchBySuffix ==
    pc # "cli" =>
        LET tag == Chars(rootTag)
        IN  IF HasSuffix(tag, Chars("Envelope"))
            THEN extractor = "parse_opentravel"
            ELSE IF HasSuffix(tag, Chars("SeatAvailabilityRS"))
            THEN extractor = "parse_iata"
            ELSE /\ extractor = "none"
                 /\ pc \in {"raised", "exited"}
                 /\ err = Error("ValueError", UnsupportedMessage)
                 /\ Contains(Chars(err.msg), Chars("OpenTravel"))
                 /\ Contains(Chars(err.msg), Chars("IATA"))
                 /\ rows = <<>> /\ out = <<>> /\ parsed = <<>>
                 /\ outFile = <<>>

C3_Witness ==
    /\ pc = "exited"
    /\ rootTag = "EnvelopeRS"
    /\ extractor = "none"
    /\ err.kind = "ValueError"

\* C4: when a row number occurs on several rows, the output holds under that
\* key exactly the seat list of the last such row: nothing of the earlier
\* rows is kept or merged, and the other keys hold their own rows' lists.
C4_LastRowWins ==
    Returned =>
        /\ DictKeys(Result) = {RowKey(rows[i]) : i \in 1..Len(rows)}
        /\ \A e \in 1..Len(Result) :
            /\ Result[e][2] = SeatsOf(LastRow(Result[e][1]))
            /\ \A f \in 1..Len(Result) : Result[f][1] = Result[e][1] => f = e

C4_Witness ==
    /\ Returned
    /\ Len(rows) = 2
    /\ RowKey(rows[1]) = RowKey(rows[2])
    /\ rows[1].seats # <<>>
    /\ rows[1].seats # rows[2].seats
    /\ Result = <<<<RowKey(rows[2]), SeatsOf(rows[2])>>>>

\* the display names the seat's SeatDefinitionRef children resolve to
ResolvedNames(seat) ==
    [j \in 1..Len(seat.SeatDefinitionRef) |->
        DictGet(defs, seat.SeatDefinitionRef[j])]

\* C5: in parse_iata, available is true exactly when "AVAILABLE" is among
\* the resolved display names, and seatType is the resolved list without
\* the occurrences of "AVAILABLE", the other names in their order.
C5_AvailableMarker ==
    (Returned /\ extractor = "parse_iata") =>
        ForAllSeats(LAMBDA seat, record :
            LET names == ResolvedNames(seat)
            IN  /\ record.available <=>
                    \E j \in 1..Len(names) : names[j] = Str("AVAILABLE")
                /\ record.seatType =
                    SelectSeq(names, LAMBDA x : x # Str("AVAILABLE")))

C5_Witness ==
    /\ Returned
    /\ extractor = "parse_iata"
    /\ ExistsSeat(LAMBDA seat, record :
            /\ ResolvedNames(seat) = <<Str("AVAILABLE"), Str("Window")>>
            /\ record.available
            /\ record.seatType = <<Str("Window")>>)

\* C6: in parse_opentravel, price and currency are both "no offer" only
\* when the seat has no Service child at all; a seat whose Service element
\* exists, even empty, is handled as priced.
C6_ServicePresence ==
    (Returned /\ extractor = "parse_opentravel") =>
        ForAllSeats(LAMBDA seat, record :
            (record.price = NoOffer /\ record.currency = NoOffer)
                => seat.service = <<>>)

\* C7: every key of the output of parse_opentravel is the RowNumber of a
\* row of the document, and every seat record under it has the CabinType
\* of the row whose seats are stored under that key.
C7_RowKeyAndCabin ==
    (Returned /\ extractor = "parse_opentravel") =>
        \A e \in 1..Len(Result) :
            /\ \E i \in 1..Len(rows) : rows[i].RowNumber = Result[e][1]
            /\ \A i \in 1..Len(Result[e][2]) :
                Result[e][2][i].cabinClass = LastRow(Result[e][1]).CabinType

C7_Witness ==
    /\ Returned
    /\ extractor = "parse_opentravel"
    /\ Len(rows) = 2
    /\ rows[1].RowNumber = rows[2].RowNumber
    /\ rows[1].CabinType # rows[2].CabinType
    /\ rows[1].seats # <<>>
    /\ rows[2].seats # <<>>

\* a string that int() reads
IsInteger(v) == v.t = "str" /\ PyInt(v).err = ""

\* the malformed-document conditions of a seat element
MalformedSeat(seat) ==
    IF extractor = "parse_opentravel"
    THEN \/ seat.summary = <<>>
         \/ seat.summary # <<>> /\ seat.summary[1].SeatNumber = PyNone
         \/ \E i \in 1..(IF seat.service = <<>> THEN 0
                         ELSE Len(seat.service[1].children)) :
                LET child == seat.service[1].children[i]
                IN  /\ child.tag = "Fee"
                    /\ ~(IsInteger(child.Amount) /\ IsInteger(child.DecimalPlaces))
    ELSE \/ \E j \in 1..Len(seat.SeatDefinitionRef) :
                ~DictHas(defs, seat.SeatDefinitionRef[j])
         \/ seat.OfferItemRefs # <<>> /\ ~DictHas(offers, seat.OfferItemRefs[1])

\* C8: every malformed-document condition makes the extractor raise: no
\* mapping is returned for a document with a seat without a Summary, a
\* missing required attribute, a Fee whose Amount or DecimalPlaces is absent
\* or no integer, or a reference that is no key of its index.
C8_MalformedAlwaysRaises ==
    Returned =>
        \A r \in 1..Len(rows) : \A i \in 1..Len(rows[r].seats) :
            ~MalformedSeat(rows[r].seats[i])

\* C9: in a run in which parse_from fails nothing is returned, not even the
\* rows already processed, and the output file is never opened; the file is
\* written only once parse_from has returned the complete mapping.
C9_AllOrNothing ==
    /\ err # NoError => (parsed = <<>> /\ outFile = <<>>)
    /\ parsed # <<>> => (pc \in {"returned", "done"} /\ parsed = <<out>>)
    /\ outFile # <<>> => (pc = "done" /\ err = NoError /\ outFile = parsed)

C9_Witness ==
    /\ pc = "exited"
    /\ extractor # "none"
    /\ out # <<>>
    /\ parsed = <<>>
    /\ outFile = <<>>

\* C10: a malformed-document failure never reaches the caller with the
\* kind of an unsupported-format failure (ValueError, line 71).
C10_TypedErrors ==
    (err # NoError /\ extractor # "none") => err.kind # "ValueError"

====
